---- MODULE Spec2Model ----
(***************************************************************************)
(* babel.support: LazyProxy (deferred evaluation with a memoized value)    *)
(* and NullTranslations / Translations (context, plural and domain aware   *)
(* catalog lookup, fallback chains, add and merge).                        *)
(***************************************************************************)
EXTENDS Integers, Sequences, FiniteSets, TLC

VARIABLES _is_cache_enabled, _value, _attribute_error, calls, log

VARIABLES _catalog, _fallback, _domains, domain, files, nops, last, args

VARIABLES _func, _args, _kwargs, copies, pc, local

proxyVars == <<_is_cache_enabled, _value, _attribute_error, calls, log>>

transVars == <<_catalog, _fallback, _domains, domain, files, nops, last, args>>

copyVars == <<_func, _args, _kwargs, copies>>

threadVars == <<pc, local>>

vars == <<_is_cache_enabled, _value, _attribute_error, calls, log, _catalog, _fallback, _domains, domain, files, nops, last, args, _func, _args, _kwargs, copies, pc, local>>

(***************************************************************************)
(* LazyProxy                                                               *)
(***************************************************************************)

\* Python's None, as held by the slots _value and _attribute_error.
None == "None"

\* The values a producer may return; None is one of them.
Returns == {None, "a", "b"}

\* The AttributeError instances a producer may raise.
AttributeErrors == {"AttributeError1", "AttributeError2"}

\* The exceptions of another kind a producer may raise.
OtherErrors == {"ValueError"}

\* Accesses of one proxy a behaviour follows.
MaxAccesses == 4

\* What one call self._func(*self._args, **self._kwargs) does: it returns a
\* value or raises.  A producer need not be deterministic.
FuncOutcomes == [kind : {"return"}, val : Returns] \cup [kind : {"AttributeError"}, val : AttributeErrors] \cup [kind : {"Exception"}, val : OtherErrors]

\* The outcome used when the producer is not called.
NoCall == [kind |-> "return", val |-> None]

\* value that remembers a failure of any kind (for C11).
ValueUncached_remembers_all(v, ae, cache, r) == IF r.kind \in {"AttributeError", "Exception"} THEN [v |-> v, ae |-> r.val, invoked |-> TRUE, kind |-> r.kind, val |-> r.val] ELSE IF ~cache THEN [v |-> v, ae |-> ae, invoked |-> TRUE, kind |-> "return", val |-> r.val] ELSE [v |-> r.val, ae |-> ae, invoked |-> TRUE, kind |-> "return", val |-> r.val]

\* The property LazyProxy.value, read in the state (v, ae) with r what the
\* producer does if it is called: the new slots, whether the producer was
\* called, and what the read returns or raises.
ValueUncached(v, ae, cache, r) == IF r.kind = "AttributeError" THEN [v |-> v, ae |-> r.val, invoked |-> TRUE, kind |-> "AttributeError", val |-> r.val] ELSE IF r.kind = "Exception" THEN [v |-> v, ae |-> ae, invoked |-> TRUE, kind |-> "Exception", val |-> r.val] ELSE IF ~cache THEN [v |-> v, ae |-> ae, invoked |-> TRUE, kind |-> "return", val |-> r.val] ELSE [v |-> r.val, ae |-> ae, invoked |-> TRUE, kind |-> "return", val |-> r.val]

value(v, ae, cache, r) == IF v = None THEN ValueUncached(v, ae, cache, r) ELSE [v |-> v, ae |-> ae, invoked |-> FALSE, kind |-> "return", val |-> v]

\* The producer outcomes a read of value can meet: the producer runs only when
\* no value is stored.
Producer(v) == IF v = None THEN FuncOutcomes ELSE {NoCall}

\* LazyProxy.__getattr__(name): found says whether the realized value has the
\* attribute; an AttributeError of getattr(self.value, name) is the value's own
\* and is not remembered.
getattr_unchecked(v, ae, cache, r, found) == LET a == value(v, ae, cache, r) IN IF a.kind # "return" THEN a ELSE IF found THEN [a EXCEPT !.kind = "attr"] ELSE [a EXCEPT !.kind = "AttributeError", !.val = "NoSuchAttribute"]

\* __getattr__ without the test of the remembered error (for C10).
getattr_reevaluates(v, ae, cache, r, found) == getattr_unchecked(v, ae, cache, r, found)

getattr(v, ae, cache, r, found) == IF ae # None THEN [v |-> v, ae |-> ae, invoked |-> FALSE, kind |-> "AttributeError", val |-> ae] ELSE getattr_unchecked(v, ae, cache, r, found)

\* One access, as the log keeps it.
Entry(op, a) == [op |-> op, invoked |-> a.invoked, kind |-> a.kind, val |-> a.val]

\* LazyProxy.__init__: nothing is evaluated, both slots are None.
InitProxy == /\ _is_cache_enabled \in BOOLEAN
             /\ _value = None
             /\ _attribute_error = None
             /\ calls = 0
             /\ log = <<>>
             /\ _func = <<>>
             /\ _args = <<>>
             /\ _kwargs = <<>>
             /\ copies = <<>>
             /\ pc = <<>>
             /\ local = <<>>
             /\ _catalog = <<>>
             /\ _fallback = <<>>
             /\ _domains = <<>>
             /\ domain = <<>>
             /\ files = <<>>
             /\ nops = 0
             /\ last = <<>>
             /\ args = <<>>

\* proxy.value
Value == /\ Len(log) < MaxAccesses
         /\ \E r \in Producer(_value) : LET a == value(_value, _attribute_error, _is_cache_enabled, r) IN
              /\ _value' = a.v
              /\ _attribute_error' = a.ae
              /\ calls' = calls + (IF a.invoked THEN 1 ELSE 0)
              /\ log' = Append(log, Entry("value", a))
         /\ UNCHANGED <<_is_cache_enabled, transVars, copyVars, threadVars>>

\* proxy.<name>, for a name the proxy itself does not define
GetAttr == /\ Len(log) < MaxAccesses
           /\ \E r \in Producer(_value), found \in BOOLEAN : LET a == getattr(_value, _attribute_error, _is_cache_enabled, r, found) IN
                /\ _value' = a.v
                /\ _attribute_error' = a.ae
                /\ calls' = calls + (IF a.invoked THEN 1 ELSE 0)
                /\ log' = Append(log, Entry("getattr", a))
           /\ UNCHANGED <<_is_cache_enabled, transVars, copyVars, threadVars>>

NextProxy == Value \/ GetAttr

SpecProxy == InitProxy /\ [][NextProxy]_vars

(***************************************************************************)
(* LazyProxy: claims                                                       *)
(***************************************************************************)

\* Every access so far was a read of value that returned.
AllReadsReturned == \A i \in 1..Len(log) : log[i].op = "value" /\ log[i].kind = "return"

\* C1: N >= 2 reads of value in sequence, each returning, invoke the producer
\* exactly once when caching is enabled (the first result is stored and every
\* later read returns it) and exactly N times when caching is disabled
\* (nothing is stored), whatever value the producer returns.
C1_OnceOrEveryTime == (Len(log) >= 2 /\ AllReadsReturned) => IF _is_cache_enabled THEN calls = 1 /\ _value = log[1].val /\ (\A i \in 1..Len(log) : log[i].val = log[1].val) ELSE calls = Len(log) /\ _value = None

\* Access i was a read of value (by the program or inside __getattr__) whose
\* producer raised an AttributeError.
FailedMissingAttribute(i) == log[i].invoked /\ log[i].kind = "AttributeError" /\ log[i].val \in AttributeErrors

\* The last access before j whose producer raised an AttributeError.
LastFailure(j) == CHOOSE i \in 1..(j - 1) : FailedMissingAttribute(i) /\ \A k \in (i + 1)..(j - 1) : ~FailedMissingAttribute(k)

\* C10: once a read of value has failed with an AttributeError, every later
\* attribute lookup on the proxy raises the remembered error (the one of the
\* last such failure before the lookup) and does not invoke the producer.
C10_RememberedErrorReraised == \A j \in 1..Len(log) : (log[j].op = "getattr" /\ \E i \in 1..(j - 1) : FailedMissingAttribute(i)) => (~log[j].invoked /\ log[j].kind = "AttributeError" /\ log[j].val = log[LastFailure(j)].val)

\* C10 witness: two reads of value fail with different AttributeErrors, a third
\* read succeeds, and an attribute lookup follows.
C10_Witness == Len(log) = 4 /\ log[1].op = "value" /\ log[1].val = "AttributeError1" /\ log[2].op = "value" /\ log[2].val = "AttributeError2" /\ log[3].op = "value" /\ log[3].kind = "return" /\ log[4].op = "getattr" /\ log[4].val = "AttributeError2"

\* Access i called the producer and the producer raised.
ProducerFailed(i) == log[i].invoked /\ log[i].kind \in {"AttributeError", "Exception"} /\ log[i].val \in AttributeErrors \cup OtherErrors

\* The producer of access i raised an exception that is no AttributeError.
FailedOtherwise(i) == ProducerFailed(i) /\ log[i].kind = "Exception"

\* The error the slot _attribute_error holds after the first j accesses.
Remembered(j) == IF \E i \in 1..j : FailedMissingAttribute(i) THEN log[LastFailure(j + 1)].val ELSE None

\* After an access whose producer raised the proxy holds no value, and a read
\* of value that follows it calls the producer again.
FailureNotCached == /\ (Len(log) > 0 /\ ProducerFailed(Len(log))) => _value = None
                    /\ \A i \in 1..(Len(log) - 1) : (ProducerFailed(i) /\ log[i + 1].op = "value") => log[i + 1].invoked

\* C11: a failed producer call is never cached, and after a failure of another
\* kind than AttributeError the next attribute lookup on the proxy calls the
\* producer instead of raising again.
C11_LookupEvaluates == FailureNotCached /\ \A i \in 1..(Len(log) - 1) : (FailedOtherwise(i) /\ log[i + 1].op = "getattr") => log[i + 1].invoked

\* C11, amended: a failed producer call is never cached; a failure of another
\* kind than AttributeError leaves the remembered error as it was, so the next
\* attribute lookup calls the producer when no AttributeError is remembered,
\* and otherwise raises the remembered AttributeError, never the other failure.
C11_OtherFailureNotRemembered == /\ FailureNotCached
                                 /\ _attribute_error = Remembered(Len(log))
                                 /\ \A i \in 1..(Len(log) - 1) : (FailedOtherwise(i) /\ log[i + 1].op = "getattr") => IF Remembered(i) = None THEN log[i + 1].invoked ELSE ~log[i + 1].invoked /\ log[i + 1].kind = "AttributeError" /\ log[i + 1].val = Remembered(i)

\* C11 witness: a read of value fails with another kind of error, the next read
\* calls the producer again and fails alike, and the attribute lookup that
\* follows calls the producer.
C11_Witness == Len(log) >= 3 /\ log[1].op = "value" /\ FailedOtherwise(1) /\ log[2].op = "value" /\ FailedOtherwise(2) /\ log[3].op = "getattr" /\ log[3].invoked /\ _attribute_error = None

(***************************************************************************)
(* NullTranslations and Translations: data                                 *)
(***************************************************************************)

\* The catalogs a behaviour follows: instances of Translations, and one of
\* NullTranslations (what Translations.load returns when no file is found).
TranslationsObjs == {1, 2, 3}

NullTranslationsObjs == {4}

Catalogs == TranslationsObjs \cup NullTranslationsObjs

\* The None a _fallback holds and _domains.get returns.
NoObject == 0

\* Calls of add and merge a behaviour follows.
MaxOps == 2

\* Translations.DEFAULT_DOMAIN, and another domain name.
DEFAULT_DOMAIN == "messages"

DomainNames == {DEFAULT_DOMAIN, "other"}

\* Strings are sequences of code points: "c", "m", "p".
Contexts == {<<99>>}

Messages == {<<109>>}

PluralMessages == {<<112>>}

\* Cardinal numbers passed to the plural lookups.
Nums == {0, 1, 2}

\* The separator of CONTEXT_ENCODING, "\x04".
EOT == 4

\* An encoding that joins context and message with "|" (for C13).
CONTEXT_ENCODING_bar(context, message) == context \o <<124>> \o message

\* CONTEXT_ENCODING % (context, message)
CONTEXT_ENCODING(context, message) == context \o <<EOT>> \o message

\* A key of _catalog is a string or a pair (string, plural index); the string
\* key s is kept as the pair (s, NoIndex).
NoIndex == -1

Key(s, i) == <<s, i>>

\* The message ids that catalogs hold entries for.
MsgIds == {CONTEXT_ENCODING(c, m) : c \in Contexts, m \in Messages}

\* The translated string catalog o was loaded with under (id, i).
Translated(o, i) == <<116, 48 + o, 49 + i>>

EmptyCatalog == [k \in {} |-> <<>>]

\* The _catalog of a Translations read from a file: for a message id no entry,
\* a singular entry (a string key) or a plural entry (a key per plural form).
SingularEntry(o, id) == [k \in {Key(id, NoIndex)} |-> Translated(o, NoIndex)]

PluralEntry(o, id) == [k \in {Key(id, 0), Key(id, 1)} |-> Translated(o, k[2])]

ParsedCatalogs(o) == {EmptyCatalog} \cup {SingularEntry(o, id) : id \in MsgIds} \cup {PluralEntry(o, id) : id \in MsgIds}

\* self.plural: the default of NullTranslations.__init__, int(n != 1); catalog 2
\* was read from a file whose header states the rule n > 1.
plural(o, n) == IF o = 2 THEN (IF n > 1 THEN 1 ELSE 0) ELSE (IF n # 1 THEN 1 ELSE 0)

\* dict.get(key) with default None, on a dict of catalogs.
Get(d, key) == IF key \in DOMAIN d THEN d[key] ELSE NoObject

\* d[key] = v
Put(d, key, v) == [k \in (DOMAIN d) \cup {key} |-> IF k = key THEN v ELSE d[k]]

\* Python's recursion limit, as far as these chains can tell: a chain of
\* distinct catalogs is shorter, a cyclic one is not.
RecursionLimit == Cardinality(Catalogs)

(***************************************************************************)
(* add and merge                                                           *)
(***************************************************************************)

\* dict.update that keeps the entry of a under a key both have (for C4).
update_keeps_own(a, b) == [k \in (DOMAIN a) \cup (DOMAIN b) |-> IF k \in DOMAIN a THEN a[k] ELSE b[k]]

\* dict.update: the entries of b, and those of a under the other keys.
update(a, b) == [k \in (DOMAIN a) \cup (DOMAIN b) |-> IF k \in DOMAIN b THEN b[k] ELSE a[k]]

\* add_fallback that sets the fallback of o itself (for C3 and C7).
add_fallback_overwrites(fb, o, fallback, depth) == [ok |-> TRUE, fb |-> [fb EXCEPT ![o] = fallback]]

\* gettext.NullTranslations.add_fallback, which add calls: the fallback goes to
\* the end of the chain.  ok is FALSE when the recursion does not end.
RECURSIVE add_fallback(_, _, _, _)
add_fallback(fb, o, fallback, depth) == IF depth = 0 THEN [ok |-> FALSE, fb |-> fb] ELSE IF fb[o] # NoObject THEN add_fallback(fb, fb[o], fallback, depth - 1) ELSE [ok |-> TRUE, fb |-> [fb EXCEPT ![o] = fallback]]

\* Translations.merge(translations): the catalogs and files after it.
merge(cat, fls, self, translations) == IF translations \in TranslationsObjs THEN [cat |-> [cat EXCEPT ![self] = update(cat[self], cat[translations])], files |-> [fls EXCEPT ![self] = fls[self] \o fls[translations]]] ELSE [cat |-> cat, files |-> fls]

\* The state a call leaves, the branch it took and the exception it raised.
Outcome(cat, fb, doms, fls, branch, exc) == [cat |-> cat, fb |-> fb, doms |-> doms, files |-> fls, branch |-> branch, exc |-> exc]

\* add that registers translations without making self its fallback (for C3).
add_domain_unchained(cat, fb, doms, fls, dm, self, translations, mrg) == LET existing == Get(doms[self], dm[translations]) IN IF mrg /\ existing # NoObject THEN (IF existing \in TranslationsObjs THEN LET m == merge(cat, fls, existing, translations) IN Outcome(m.cat, fb, doms, m.files, "merge_existing", None) ELSE Outcome(cat, fb, doms, fls, "merge_existing", "AttributeError")) ELSE Outcome(cat, fb, [doms EXCEPT ![self] = Put(@, dm[translations], translations)], fls, "register", None)

\* add, past the test of line 657: merge into the catalog registered under the
\* domain, or register translations under it.
add_domain(cat, fb, doms, fls, dm, self, translations, mrg) == LET existing == Get(doms[self], dm[translations]) IN IF mrg /\ existing # NoObject THEN (IF existing \in TranslationsObjs THEN LET m == merge(cat, fls, existing, translations) IN Outcome(m.cat, fb, doms, m.files, "merge_existing", None) ELSE Outcome(cat, fb, doms, fls, "merge_existing", "AttributeError")) ELSE LET r == add_fallback(fb, translations, self, RecursionLimit) IN IF r.ok THEN Outcome(cat, r.fb, [doms EXCEPT ![self] = Put(@, dm[translations], translations)], fls, "register", None) ELSE Outcome(cat, fb, doms, fls, "register", "RecursionError")

\* Translations.add(translations, merge)
add(cat, fb, doms, fls, dm, self, translations, mrg) == IF mrg /\ dm[translations] = dm[self] THEN LET m == merge(cat, fls, self, translations) IN Outcome(m.cat, fb, doms, m.files, "merge", None) ELSE add_domain(cat, fb, doms, fls, dm, self, translations, mrg)

(***************************************************************************)
(* Lookups                                                                 *)
(***************************************************************************)

\* What a lookup returns, or the exception it ends with.
Returned(v) == [exc |-> None, val |-> v]

Raised(e) == [exc |-> e, val |-> <<>>]

\* pgettext that does not ask the fallback (for C5).
pgettext_no_fallback(cat, fb, o, context, message, depth) == LET ctxt_msg_id == Key(CONTEXT_ENCODING(context, message), NoIndex) IN IF ctxt_msg_id \in DOMAIN cat[o] THEN Returned(cat[o][ctxt_msg_id]) ELSE Returned(message)

\* NullTranslations.pgettext
RECURSIVE pgettext(_, _, _, _, _, _)
pgettext(cat, fb, o, context, message, depth) == IF depth = 0 THEN Raised("RecursionError") ELSE LET ctxt_msg_id == Key(CONTEXT_ENCODING(context, message), NoIndex) IN IF ctxt_msg_id \in DOMAIN cat[o] THEN Returned(cat[o][ctxt_msg_id]) ELSE IF fb[o] # NoObject THEN pgettext(cat, fb, fb[o], context, message, depth - 1) ELSE Returned(message)

\* The default chosen by the plural rule of the catalog instead of num == 1
\* (for C6).
npgettext_default_by_rule(o, singular, plur, num) == IF plural(o, num) = 0 THEN singular ELSE plur

\* The value npgettext returns when neither the catalog nor a fallback decides.
npgettext_default(o, singular, plur, num) == IF num = 1 THEN singular ELSE plur

\* NullTranslations.npgettext
RECURSIVE npgettext(_, _, _, _, _, _, _, _)
npgettext(cat, fb, o, context, singular, plur, num, depth) == IF depth = 0 THEN Raised("RecursionError") ELSE LET key == Key(CONTEXT_ENCODING(context, singular), plural(o, num)) IN IF key \in DOMAIN cat[o] THEN Returned(cat[o][key]) ELSE IF fb[o] # NoObject THEN npgettext(cat, fb, fb[o], context, singular, plur, num, depth - 1) ELSE Returned(npgettext_default(o, singular, plur, num))

\* gettext.GNUTranslations.gettext on a Translations, and
\* gettext.NullTranslations.gettext on a NullTranslations.
RECURSIVE gettext(_, _, _, _, _)
gettext(cat, fb, o, message, depth) == IF depth = 0 THEN Raised("RecursionError") ELSE IF o \in TranslationsObjs /\ Key(message, NoIndex) \in DOMAIN cat[o] THEN Returned(cat[o][Key(message, NoIndex)]) ELSE IF o \in TranslationsObjs /\ Key(message, plural(o, 1)) \in DOMAIN cat[o] THEN Returned(cat[o][Key(message, plural(o, 1))]) ELSE IF fb[o] # NoObject THEN gettext(cat, fb, fb[o], message, depth - 1) ELSE Returned(message)

\* gettext.GNUTranslations.ngettext on a Translations, and
\* gettext.NullTranslations.ngettext on a NullTranslations.
RECURSIVE ngettext(_, _, _, _, _, _, _)
ngettext(cat, fb, o, msgid1, msgid2, n, depth) == IF depth = 0 THEN Raised("RecursionError") ELSE IF o \in TranslationsObjs /\ Key(msgid1, plural(o, n)) \in DOMAIN cat[o] THEN Returned(cat[o][Key(msgid1, plural(o, n))]) ELSE IF fb[o] # NoObject THEN ngettext(cat, fb, fb[o], msgid1, msgid2, n, depth - 1) ELSE Returned(IF n = 1 THEN msgid1 ELSE msgid2)

\* Routing that prefers any registered catalog to self (for C8).
Route_any_registered(doms, self, dom) == IF dom \in DOMAIN doms[self] THEN doms[self][dom] ELSE IF DOMAIN doms[self] # {} THEN doms[self][CHOOSE d \in DOMAIN doms[self] : TRUE] ELSE self

\* self._domains.get(domain, self)
Route(doms, self, dom) == IF dom \in DOMAIN doms[self] THEN doms[self][dom] ELSE self

dgettext(cat, fb, doms, self, dom, message) == gettext(cat, fb, Route(doms, self, dom), message, RecursionLimit)

dngettext(cat, fb, doms, self, dom, singular, plur, num) == ngettext(cat, fb, Route(doms, self, dom), singular, plur, num, RecursionLimit)

dpgettext(cat, fb, doms, self, dom, context, message) == pgettext(cat, fb, Route(doms, self, dom), context, message, RecursionLimit)

dnpgettext(cat, fb, doms, self, dom, context, singular, plur, num) == npgettext(cat, fb, Route(doms, self, dom), context, singular, plur, num, RecursionLimit)

\* NullTranslations.__init__ and Translations.__init__: no fallback, no
\* domains; catalog 1 has the default domain, catalogs 2 and 3 share another.
InitialCatalogs == {c \in [Catalogs -> UNION {ParsedCatalogs(o) : o \in Catalogs}] : \A o \in Catalogs : c[o] \in (IF o \in TranslationsObjs THEN ParsedCatalogs(o) ELSE {EmptyCatalog})}

InitialDomain == [o \in Catalogs |-> IF o \in NullTranslationsObjs THEN None ELSE IF o = 1 THEN DEFAULT_DOMAIN ELSE "other"]

Constructed(c) == [cat |-> c, fb |-> [o \in Catalogs |-> NoObject], doms |-> [o \in Catalogs |-> [d \in {} |-> NoObject]], files |-> [o \in Catalogs |-> IF o \in TranslationsObjs THEN <<o>> ELSE <<>>]]

InitTrans == /\ \E c \in InitialCatalogs : LET st == Constructed(c) IN _catalog = st.cat /\ _fallback = st.fb /\ _domains = st.doms /\ files = st.files
             /\ domain = InitialDomain
             /\ nops = 0
             /\ last = [op |-> "init"]
             /\ args = <<>>
             /\ _is_cache_enabled = TRUE
             /\ _value = None
             /\ _attribute_error = None
             /\ calls = 0
             /\ log = <<>>
             /\ _func = <<>>
             /\ _args = <<>>
             /\ _kwargs = <<>>
             /\ copies = <<>>
             /\ pc = <<>>
             /\ local = <<>>

\* self.add(translations, merge).  last keeps the call, the branch it took,
\* the exception it raised and the catalogs as they were before it.
Add(self, translations, mrg) == /\ nops < MaxOps
                                /\ LET r == add(_catalog, _fallback, _domains, files, domain, self, translations, mrg) IN
                                     /\ _catalog' = r.cat
                                     /\ _fallback' = r.fb
                                     /\ _domains' = r.doms
                                     /\ files' = r.files
                                     /\ last' = [op |-> "add", self |-> self, translations |-> translations, merge |-> mrg, branch |-> r.branch, exc |-> r.exc, pre |-> [cat |-> _catalog, fb |-> _fallback, doms |-> _domains]]
                                /\ nops' = nops + 1
                                /\ UNCHANGED <<domain, args, proxyVars, copyVars, threadVars>>

\* self.merge(translations)
Merge(self, translations) == /\ nops < MaxOps
                             /\ LET m == merge(_catalog, files, self, translations) IN
                                  /\ _catalog' = m.cat
                                  /\ files' = m.files
                                  /\ last' = [op |-> "merge", self |-> self, translations |-> translations, merge |-> TRUE, branch |-> "merge", exc |-> None, pre |-> [cat |-> _catalog, fb |-> _fallback, doms |-> _domains]]
                             /\ nops' = nops + 1
                             /\ UNCHANGED <<_fallback, _domains, domain, args, proxyVars, copyVars, threadVars>>

NextTrans == \/ \E self \in TranslationsObjs, translations \in Catalogs, mrg \in BOOLEAN : Add(self, translations, mrg)
             \/ \E self \in TranslationsObjs, translations \in Catalogs : Merge(self, translations)

SpecTrans == InitTrans /\ [][NextTrans]_vars


(***************************************************************************)
(* add and merge: claims                                                   *)
(***************************************************************************)

\* The catalogs after o in its fallback chain.
RECURSIVE ChainFrom(_, _, _)
ChainFrom(fb, o, depth) == IF depth = 0 \/ fb[o] = NoObject THEN {} ELSE {fb[o]} \cup ChainFrom(fb, fb[o], depth - 1)

Acyclic(fb) == \A o \in Catalogs : o \notin ChainFrom(fb, o, Cardinality(Catalogs))

\* The last catalog of the fallback chain of o (o when it has no fallback).
RECURSIVE ChainEnd(_, _, _)
ChainEnd(fb, o, depth) == IF depth = 0 \/ fb[o] = NoObject THEN o ELSE ChainEnd(fb, fb[o], depth - 1)

\* The last call was self.add(translations, ...) and took the given branch.
LastAdd(branch) == last.op = "add" /\ last.branch = branch

\* A lookup on o misses in the mapping of o itself.
MissesP(cat, o, c, m) == Key(CONTEXT_ENCODING(c, m), NoIndex) \notin DOMAIN cat[o]

MissesNP(cat, o, c, m, n) == Key(CONTEXT_ENCODING(c, m), plural(o, n)) \notin DOMAIN cat[o]

\* Every lookup on t that misses in the mapping of t returns what the same
\* lookup on s returns.
FallsThrough(cat, fb, t, s) == /\ \A c \in Contexts, m \in Messages : MissesP(cat, t, c, m) => pgettext(cat, fb, t, c, m, RecursionLimit) = pgettext(cat, fb, s, c, m, RecursionLimit)
                               /\ \A c \in Contexts, m \in Messages, p \in PluralMessages, n \in Nums : MissesNP(cat, t, c, m, n) => npgettext(cat, fb, t, c, m, p, n, RecursionLimit) = npgettext(cat, fb, s, c, m, p, n, RecursionLimit)

\* C2: after any sequence of add and merge calls on catalogs that start with
\* acyclic fallback chains, no catalog is in its own fallback chain, and a
\* lookup that misses ends.
C2_NoCycle == Acyclic(_fallback) /\ \A o \in Catalogs, c \in Contexts, m \in Messages : pgettext(_catalog, _fallback, o, c, m, RecursionLimit).exc = None

C4_UnionOtherWins == (last.op = "add" /\ last.merge /\ domain[last.translations] = domain[last.self]) => LET a == last.pre.cat[last.self] b == last.pre.cat[last.translations] new == _catalog[last.self] IN DOMAIN new = (DOMAIN a) \cup (DOMAIN b) /\ (\A k \in DOMAIN b : new[k] = b[k]) /\ (\A k \in (DOMAIN a) \ (DOMAIN b) : new[k] = a[k]) /\ _domains = last.pre.doms

\* C4 witness: self and other are different catalogs, both had an entry under
\* the same key and self had an entry other lacks.
C4_Witness == /\ last.op = "add" /\ last.merge /\ domain[last.translations] = domain[last.self] /\ last.translations # last.self
              /\ LET a == last.pre.cat[last.self] b == last.pre.cat[last.translations] IN (\E k \in (DOMAIN a) \cap (DOMAIN b) : a[k] # b[k]) /\ (DOMAIN a) \ (DOMAIN b) # {}

\* The fallback chain seen from o, o first.
RECURSIVE ChainSeq(_, _, _)
ChainSeq(fb, o, depth) == IF depth = 0 THEN <<>> ELSE IF fb[o] = NoObject THEN <<o>> ELSE <<o>> \o ChainSeq(fb, fb[o], depth - 1)

Existing == Get(last.pre.doms[last.self], domain[last.translations])

\* C9: self.add(other, merge=True) with other.domain different from
\* self.domain and a catalog E registered under it merges other's entries into
\* E, leaves E registered, and changes neither self's mapping nor other's
\* fallback.
C9_MergedIntoExisting == (last.op = "add" /\ last.merge /\ domain[last.translations] # domain[last.self] /\ Existing # NoObject) => (last.exc = None /\ _catalog[Existing] = update(last.pre.cat[Existing], last.pre.cat[last.translations]) /\ Get(_domains[last.self], domain[last.translations]) = Existing /\ _catalog[last.self] = last.pre.cat[last.self] /\ _fallback[last.translations] = last.pre.fb[last.translations])

\* C9, where it holds: the same, for an E that is an instance of Translations.
C9_MergedIntoTranslations == (last.op = "add" /\ last.merge /\ domain[last.translations] # domain[last.self] /\ Existing \in TranslationsObjs) => (last.exc = None /\ _catalog[Existing] = update(last.pre.cat[Existing], last.pre.cat[last.translations]) /\ Get(_domains[last.self], domain[last.translations]) = Existing /\ _catalog[last.self] = last.pre.cat[last.self] /\ _fallback[last.translations] = last.pre.fb[last.translations])

(***************************************************************************)
(* Lookups on the catalogs an application has set up                       *)
(***************************************************************************)

\* A call self.add(translations, merge).
Calls == [self : TranslationsObjs, translations : Catalogs, merge : BOOLEAN]

\* The calls of add an application makes before it looks messages up.
Setups == {<<>>} \cup {<<c>> : c \in Calls} \cup {<<c1, c2>> : c1 \in Calls, c2 \in Calls}

\* The state the calls of setup leave, made from the state st; a call that
\* raises leaves the state as it was.
RECURSIVE After(_, _, _)
After(st, dm, setup) == IF setup = <<>> THEN st ELSE LET c == Head(setup) IN After(add(st.cat, st.fb, st.doms, st.files, dm, c.self, c.translations, c.merge), dm, Tail(setup))

\* The arguments of the lookups of a behaviour: the catalog they are called
\* on, and the domain, context, message, plural message and number they pass;
\* msgid is the message gettext, ngettext, dgettext and dngettext pass.
Arguments == [self : Catalogs, domain : DomainNames, context : Contexts, message : Messages, msgid : MsgIds, plural : PluralMessages, num : Nums]

\* The state in which the application starts to look messages up.
InitLookup == /\ \E c \in InitialCatalogs, setup \in Setups : LET st == After(Constructed(c), InitialDomain, setup) IN _catalog = st.cat /\ _fallback = st.fb /\ _domains = st.doms /\ files = st.files
              /\ domain = InitialDomain
              /\ nops = 0
              /\ last = [op |-> "init"]
              /\ args \in Arguments
              /\ _is_cache_enabled = TRUE
              /\ _value = None
              /\ _attribute_error = None
              /\ calls = 0
              /\ log = <<>>
              /\ _func = <<>>
              /\ _args = <<>>
              /\ _kwargs = <<>>
              /\ copies = <<>>
              /\ pc = <<>>
              /\ local = <<>>

\* A lookup and its result, as last keeps them.
Lookup(op, result) == [op |-> op, result |-> result]

Gettext == /\ last' = Lookup("gettext", gettext(_catalog, _fallback, args.self, args.msgid, RecursionLimit))
           /\ UNCHANGED <<_catalog, _fallback, _domains, domain, files, nops, args, proxyVars, copyVars, threadVars>>

Ngettext == /\ last' = Lookup("ngettext", ngettext(_catalog, _fallback, args.self, args.msgid, args.plural, args.num, RecursionLimit))
            /\ UNCHANGED <<_catalog, _fallback, _domains, domain, files, nops, args, proxyVars, copyVars, threadVars>>

Pgettext == /\ last' = Lookup("pgettext", pgettext(_catalog, _fallback, args.self, args.context, args.message, RecursionLimit))
            /\ UNCHANGED <<_catalog, _fallback, _domains, domain, files, nops, args, proxyVars, copyVars, threadVars>>

Npgettext == /\ last' = Lookup("npgettext", npgettext(_catalog, _fallback, args.self, args.context, args.message, args.plural, args.num, RecursionLimit))
             /\ UNCHANGED <<_catalog, _fallback, _domains, domain, files, nops, args, proxyVars, copyVars, threadVars>>

Dgettext == /\ last' = Lookup("dgettext", dgettext(_catalog, _fallback, _domains, args.self, args.domain, args.msgid))
            /\ UNCHANGED <<_catalog, _fallback, _domains, domain, files, nops, args, proxyVars, copyVars, threadVars>>

Dngettext == /\ last' = Lookup("dngettext", dngettext(_catalog, _fallback, _domains, args.self, args.domain, args.msgid, args.plural, args.num))
             /\ UNCHANGED <<_catalog, _fallback, _domains, domain, files, nops, args, proxyVars, copyVars, threadVars>>

Dpgettext == /\ last' = Lookup("dpgettext", dpgettext(_catalog, _fallback, _domains, args.self, args.domain, args.context, args.message))
             /\ UNCHANGED <<_catalog, _fallback, _domains, domain, files, nops, args, proxyVars, copyVars, threadVars>>

Dnpgettext == /\ last' = Lookup("dnpgettext", dnpgettext(_catalog, _fallback, _domains, args.self, args.domain, args.context, args.message, args.plural, args.num))
              /\ UNCHANGED <<_catalog, _fallback, _domains, domain, files, nops, args, proxyVars, copyVars, threadVars>>

NextLookup == Gettext \/ Ngettext \/ Pgettext \/ Npgettext \/ Dgettext \/ Dngettext \/ Dpgettext \/ Dnpgettext

SpecLookup == InitLookup /\ [][NextLookup]_vars



(***************************************************************************)
(* Lookups: claims                                                         *)
(***************************************************************************)

\* The key pgettext or npgettext composes in catalog o for the arguments.
ComposedKey(op, o) == IF op = "pgettext" THEN Key(CONTEXT_ENCODING(args.context, args.message), NoIndex) ELSE Key(CONTEXT_ENCODING(args.context, args.message), plural(o, args.num))

\* The fallback chain of the catalog the lookup is called on.
ArgsChain == ChainSeq(_fallback, args.self, RecursionLimit)

ArgsChainAcyclic == \A i, j \in 1..Len(ArgsChain) : i # j => ArgsChain[i] # ArgsChain[j]

\* The places of the chain whose catalog holds the composed key.
Holders(op) == {i \in 1..Len(ArgsChain) : ComposedKey(op, ArgsChain[i]) \in DOMAIN _catalog[ArgsChain[i]]}

FirstHolder(op) == CHOOSE i \in Holders(op) : \A j \in Holders(op) : i <= j

\* C5: on an acyclic fallback chain, pgettext and npgettext called on the head
\* return the value of the first catalog of the chain that holds the composed
\* key.
C5_FirstInChain == (last.op \in {"pgettext", "npgettext"} /\ ArgsChainAcyclic /\ Holders(last.op) # {}) => last.result = Returned(_catalog[ArgsChain[FirstHolder(last.op)]][ComposedKey(last.op, ArgsChain[FirstHolder(last.op)])])

\* C5 witness: the third catalog of a chain is the first that holds the key of
\* an npgettext, and the lookup returns its entry.
C5_Witness == last.op = "npgettext" /\ ArgsChainAcyclic /\ Holders(last.op) # {} /\ FirstHolder(last.op) = 3 /\ last.result = Returned(Translated(ArgsChain[3], plural(ArgsChain[3], args.num)))

\* The catalog the lookup is called on has no fallback and no entry under the
\* composed key.
TotalMiss(op) == _fallback[args.self] = NoObject /\ ComposedKey(op, args.self) \notin DOMAIN _catalog[args.self]

\* C6: on a catalog with no fallback and no matching key, pgettext(c, m)
\* returns m and npgettext(c, s, p, n) returns s when n = 1 and p otherwise;
\* neither raises.
C6_MissReturnsArgument == /\ (last.op = "pgettext" /\ TotalMiss("pgettext")) => last.result = [exc |-> None, val |-> args.message]
                          /\ (last.op = "npgettext" /\ TotalMiss("npgettext")) => last.result = [exc |-> None, val |-> IF args.num = 1 THEN args.message ELSE args.plural]

\* C6 witness: npgettext with n = 0 on catalog 2, whose plural rule gives 0 the
\* index of the singular, misses and returns the plural message.
C6_Witness == last.op = "npgettext" /\ TotalMiss("npgettext") /\ args.self = 2 /\ args.num = 0 /\ plural(2, 0) = 0 /\ last.result.val = args.plural

\* No catalog is registered under the domain of the lookup.
Unregistered == args.domain \notin DOMAIN _domains[args.self]

\* C8: on a catalog with no catalog registered under domain, each
\* domain-qualified lookup returns what the unqualified lookup returns.
C8_UnregisteredDomainIsSelf == /\ (last.op = "dgettext" /\ Unregistered) => last.result = gettext(_catalog, _fallback, args.self, args.msgid, RecursionLimit)
                               /\ (last.op = "dngettext" /\ Unregistered) => last.result = ngettext(_catalog, _fallback, args.self, args.msgid, args.plural, args.num, RecursionLimit)
                               /\ (last.op = "dpgettext" /\ Unregistered) => last.result = pgettext(_catalog, _fallback, args.self, args.context, args.message, RecursionLimit)
                               /\ (last.op = "dnpgettext" /\ Unregistered) => last.result = npgettext(_catalog, _fallback, args.self, args.context, args.message, args.plural, args.num, RecursionLimit)

\* C8 witness: another domain is registered, whose catalog has its own entry
\* under the key, and the lookup returns the entry of the catalog it is called on.
C8_Witness == /\ last.op = "dnpgettext" /\ Unregistered
              /\ \E d \in DOMAIN _domains[args.self] : ComposedKey("npgettext", _domains[args.self][d]) \in DOMAIN _catalog[_domains[args.self][d]]
              /\ last.result = Returned(Translated(args.self, plural(args.self, args.num)))

(***************************************************************************)
(* LazyProxy: copies                                                       *)
(***************************************************************************)

\* A Python object as copying sees it: its identity, what it holds, and whether
\* copy.deepcopy returns the object itself (functions, numbers, strings) or
\* builds a new object that holds the same.
Object(id, atomic, content) == [id |-> id, atomic |-> atomic, content |-> content]

\* Producers: a function, and an instance of a class that defines __call__.
Funcs == {Object("f", TRUE, "function"), Object("F", FALSE, "callable object")}

\* Positional and keyword arguments bound to the producer.
ArgTuples == {<<Object("x", TRUE, "1")>>, <<Object("y", FALSE, "[1]")>>}

KwargDicts == {[n \in {"k"} |-> Object("z", FALSE, "{}")]}

\* Copies of one proxy a behaviour follows.
MaxCopies == 1

\* Accesses of the original, and of each copy, a behaviour with copies follows.
MaxCopyAccesses == 2

\* kwargs.pop(key, default): the value, and the dict without the key.
Pop(d, key, default) == [val |-> IF key \in DOMAIN d THEN d[key] ELSE default, rest |-> [k \in (DOMAIN d) \ {key} |-> d[k]]]

\* LazyProxy.__init__(func, *args, **kwargs): the slots of the new proxy.
LazyProxy(func, arguments, kwargs) == LET popped == Pop(kwargs, "enable_cache", TRUE) IN [_func |-> func, _args |-> arguments, _kwargs |-> popped.rest, _is_cache_enabled |-> popped.val, _value |-> None, _attribute_error |-> None]

\* copy.deepcopy(x, memo): memo tells the copies of one call from those of
\* another.
deepcopy(x, memo) == IF x.atomic THEN x ELSE [x EXCEPT !.id = <<@, memo>>]

\* A bool as an object: True and False are singletons.
Bool(b) == Object(b, TRUE, b)

\* __copy__ that takes the realized value along (for C12).
copy_keeps_value(self) == [LazyProxy(self._func, self._args, Put(self._kwargs, "enable_cache", self._is_cache_enabled)) EXCEPT !._value = self._value]

\* LazyProxy.__copy__
__copy__(self) == LazyProxy(self._func, self._args, Put(self._kwargs, "enable_cache", self._is_cache_enabled))

\* LazyProxy.__deepcopy__(memo)
__deepcopy__(self, memo) == LazyProxy(deepcopy(self._func, memo), [i \in DOMAIN self._args |-> deepcopy(self._args[i], memo)], Put([k \in DOMAIN self._kwargs |-> deepcopy(self._kwargs[k], memo)], "enable_cache", deepcopy(Bool(self._is_cache_enabled), memo).content))

\* The slots of the proxy that is copied.
Self == [_func |-> _func, _args |-> _args, _kwargs |-> _kwargs, _is_cache_enabled |-> _is_cache_enabled, _value |-> _value, _attribute_error |-> _attribute_error]

\* A proxy is constructed from a producer, its arguments and the cache flag.
InitCopy == /\ \E f \in Funcs, a \in ArgTuples, kw \in KwargDicts, e \in BOOLEAN : LET p == LazyProxy(f, a, Put(kw, "enable_cache", e)) IN _func = p._func /\ _args = p._args /\ _kwargs = p._kwargs /\ _is_cache_enabled = p._is_cache_enabled /\ _value = p._value /\ _attribute_error = p._attribute_error
            /\ calls = 0
            /\ log = <<>>
            /\ copies = <<>>
            /\ pc = <<>>
            /\ local = <<>>
            /\ _catalog = <<>>
            /\ _fallback = <<>>
            /\ _domains = <<>>
            /\ domain = <<>>
            /\ files = <<>>
            /\ nops = 0
            /\ last = <<>>
            /\ args = <<>>

\* A copy as a behaviour keeps it: its slots, how it was made, how many
\* accesses the original had seen, and the accesses of the copy.
Made(proxy, how) == [proxy |-> proxy, how |-> how, at |-> Len(log), log |-> <<>>]

\* copy.copy(proxy)
Copy == /\ Len(copies) < MaxCopies
        /\ copies' = Append(copies, Made(__copy__(Self), "copy"))
        /\ UNCHANGED <<proxyVars, transVars, _func, _args, _kwargs, threadVars>>

\* copy.deepcopy(proxy)
Deepcopy == /\ Len(copies) < MaxCopies
            /\ copies' = Append(copies, Made(__deepcopy__(Self, Len(copies) + 1), "deepcopy"))
            /\ UNCHANGED <<proxyVars, transVars, _func, _args, _kwargs, threadVars>>

\* copies[k].value
CopyValue(k) == /\ Len(copies[k].log) < MaxCopyAccesses
                /\ \E r \in Producer(copies[k].proxy._value) : LET c == copies[k].proxy a == value(c._value, c._attribute_error, c._is_cache_enabled, r) IN
                     /\ copies' = [copies EXCEPT ![k].proxy._value = a.v, ![k].proxy._attribute_error = a.ae, ![k].log = Append(@, Entry("value", a))]
                     /\ calls' = calls + (IF a.invoked THEN 1 ELSE 0)
                /\ UNCHANGED <<_is_cache_enabled, _value, _attribute_error, log, transVars, _func, _args, _kwargs, threadVars>>

NextCopy == (Len(log) < MaxCopyAccesses /\ Value) \/ (Len(log) < MaxCopyAccesses /\ GetAttr) \/ Copy \/ Deepcopy \/ \E k \in 1..Len(copies) : CopyValue(k)

SpecCopy == InitCopy /\ [][NextCopy]_vars

(***************************************************************************)
(* LazyProxy: claims about copies                                          *)
(***************************************************************************)

\* What a proxy wraps, identities aside.
Wrapped(p) == [func |-> p._func.content, arguments |-> [i \in DOMAIN p._args |-> p._args[i].content], kwargs |-> [k \in DOMAIN p._kwargs |-> p._kwargs[k].content], cache |-> p._is_cache_enabled]

\* The very objects a proxy wraps.
WrappedObjects(p) == <<p._func, p._args, p._kwargs, p._is_cache_enabled>>

\* The step makes a copy.
CopyMade == Len(copies') = Len(copies) + 1

\* The step is the first access of copy k.
FirstAccess(k) == Len(copies') = Len(copies) /\ copies[k].log = <<>> /\ copies'[k].log # <<>>

\* C12: copying or deep-copying a proxy, realized or not, does not invoke the
\* producer and leaves the original as it was; the copy is a new unrealized
\* proxy that wraps the same producer, arguments and cache flag (the very
\* objects after copy, objects that hold the same after deepcopy), and the
\* first read of the copy's value invokes the producer.
C12_CopyIsUnrealized == [][/\ CopyMade => LET c == copies'[Len(copies')] IN
                                /\ calls' = calls /\ log' = log /\ c.log = <<>>
                                /\ UNCHANGED <<_func, _args, _kwargs, _is_cache_enabled, _value, _attribute_error>>
                                /\ c.proxy._value = None /\ c.proxy._attribute_error = None
                                /\ Wrapped(c.proxy) = Wrapped(Self)
                                /\ c.how = "copy" => WrappedObjects(c.proxy) = WrappedObjects(Self)
                           /\ \A k \in 1..Len(copies) : FirstAccess(k) => (copies'[k].log[1].op = "value" /\ copies'[k].log[1].invoked /\ calls' = calls + 1)]_vars

\* C12 witness: a caching proxy is realized, then deep-copied, and the first
\* read of the copy calls the copied producer and returns another value than
\* the one the original holds.
C12_Witness == \E k \in 1..Len(copies) : /\ copies[k].how = "deepcopy" /\ copies[k].at >= 1
                                         /\ _is_cache_enabled /\ log[1].kind = "return" /\ _value = log[1].val /\ _value # None
                                         /\ copies[k].proxy._func # _func
                                         /\ copies[k].log # <<>> /\ copies[k].log[1].invoked /\ copies[k].log[1].kind = "return" /\ copies[k].log[1].val # _value

(***************************************************************************)
(* Catalog keys                                                            *)
(***************************************************************************)

\* Message ids a catalog file may hold besides "c\x04m": the message without a
\* context ("m"), context and message joined by "|" ("c|m"), and message and
\* context the other way round ("m\x04c").
OtherIds == {m : m \in Messages} \cup {c \o <<124>> \o m : c \in Contexts, m \in Messages} \cup {m \o <<EOT>> \o c : c \in Contexts, m \in Messages}

\* The keys of such a file: a message id as a string key, or with a plural index.
StoredKeys == {Key(id, i) : id \in MsgIds \cup OtherIds, i \in {NoIndex, 0, 1}}

\* The translated string catalog o holds under the key k.
Stored(o, k) == <<116, 48 + o>> \o k[1] \o <<49 + k[2]>>

\* Entries of a catalog a behaviour follows.
MaxEntries == 2

\* The _catalog a Translations may be constructed with from a file.
FileCatalogs(o) == {[k \in K |-> Stored(o, k)] : K \in {K \in SUBSET StoredKeys : Cardinality(K) <= MaxEntries}}

\* Catalogs 1 and 2 are read from files; one may have been added to the other,
\* which makes the other its fallback.
KeySetups == {<<>>} \cup {<<[self |-> c[1], translations |-> c[2], merge |-> FALSE]>> : c \in {<<1, 2>>, <<2, 1>>}}

InitKeys == /\ \E c1 \in FileCatalogs(1), c2 \in FileCatalogs(2), setup \in KeySetups : LET st == After(Constructed([o \in Catalogs |-> IF o = 1 THEN c1 ELSE IF o = 2 THEN c2 ELSE EmptyCatalog]), InitialDomain, setup) IN _catalog = st.cat /\ _fallback = st.fb /\ _domains = st.doms /\ files = st.files
            /\ domain = InitialDomain
            /\ nops = 0
            /\ last = [op |-> "init"]
            /\ args \in {a \in Arguments : a.self \in {1, 2} /\ a.domain = DEFAULT_DOMAIN}
            /\ _is_cache_enabled = TRUE
            /\ _value = None
            /\ _attribute_error = None
            /\ calls = 0
            /\ log = <<>>
            /\ _func = <<>>
            /\ _args = <<>>
            /\ _kwargs = <<>>
            /\ copies = <<>>
            /\ pc = <<>>
            /\ local = <<>>

NextKeys == Pgettext \/ Npgettext

SpecKeys == InitKeys /\ [][NextKeys]_vars

(***************************************************************************)
(* Catalog keys: claims                                                    *)
(***************************************************************************)

\* The key the claim names for the arguments, in catalog o: context, the code
\* point 4, message; for npgettext paired with the plural index of num under
\* the rule of o.
ExactKey(op, o) == IF op = "pgettext" THEN <<args.context \o <<4>> \o args.message, NoIndex>> ELSE <<args.context \o <<4>> \o args.message, plural(o, args.num)>>

\* The places of the chain whose catalog holds an entry under that key.
ExactHolders(op) == {i \in 1..Len(ArgsChain) : ExactKey(op, ArgsChain[i]) \in DOMAIN _catalog[ArgsChain[i]]}

FirstExactHolder(op) == ArgsChain[CHOOSE i \in ExactHolders(op) : \A j \in ExactHolders(op) : i <= j]

\* C13: pgettext(context, message) reads the key context + "\x04" + message
\* ("ctx\x04msg" for pgettext("ctx", "msg")) and npgettext reads the pair of
\* context + "\x04" + singular and plural(num), in the catalog it is called on
\* and in each fallback it is forwarded to (with that catalog's plural rule);
\* an entry a catalog holds under any other key is never returned.
C13_ExactKey == /\ CONTEXT_ENCODING(<<99, 116, 120>>, <<109, 115, 103>>) = <<99, 116, 120, 4, 109, 115, 103>>
                /\ last.op \in {"pgettext", "npgettext"} =>
                     /\ last.result.exc = None
                     /\ IF ExactHolders(last.op) = {} THEN last.result.val \in {args.message, args.plural} ELSE last.result.val = _catalog[FirstExactHolder(last.op)][ExactKey(last.op, FirstExactHolder(last.op))]
                     /\ \A o \in Catalogs : \A k \in DOMAIN _catalog[o] : k # ExactKey(last.op, o) => last.result.val # _catalog[o][k]

\* C13 witness: the catalog holds an entry under "c\x04m" and one under "c|m",
\* and pgettext returns the first.
C13_Witness == /\ last.op = "pgettext"
               /\ {<<(args.context \o <<4>>) \o args.message, NoIndex>>, <<(args.context \o <<124>>) \o args.message, NoIndex>>} \subseteq DOMAIN _catalog[args.self]
               /\ last.result.val = <<116, 48 + args.self>> \o args.context \o <<4>> \o args.message \o <<48>>

(***************************************************************************)
(* LazyProxy.value read by two threads                                     *)
(***************************************************************************)

Threads == {"t1", "t2"}

\* Reads of value each thread makes.
MaxReads == 2

\* A thread between two reads, and what a thread that has not read holds.
Idle == "idle"

NoResult == [kind |-> "none", val |-> None]

\* What a thread keeps: the local variable value (or the caught error), whether
\* this read has called the producer, whether a store of line 213 had been
\* executed when this read started, whether line 204 found a value, the reads it has started, the stores it has
\* executed and the outcome of its last read.
InitialLocal == [value |-> None, invoked |-> FALSE, after_store |-> FALSE, found |-> FALSE, reads |-> 0, stores |-> 0, result |-> NoResult]

\* Some thread has executed the store of line 213.
ValueStored == \E t \in Threads : local[t].stores > 0

InitThreads == /\ _is_cache_enabled \in BOOLEAN
               /\ _value = None
               /\ _attribute_error = None
               /\ calls = 0
               /\ log = <<>>
               /\ pc = [t \in Threads |-> Idle]
               /\ local = [t \in Threads |-> InitialLocal]
               /\ _func = <<>>
               /\ _args = <<>>
               /\ _kwargs = <<>>
               /\ copies = <<>>
               /\ _catalog = <<>>
               /\ _fallback = <<>>
               /\ _domains = <<>>
               /\ domain = <<>>
               /\ files = <<>>
               /\ nops = 0
               /\ last = <<>>
               /\ args = <<>>

\* The thread starts to read proxy.value.
Start(t) == /\ pc[t] = Idle /\ local[t].reads < MaxReads
            /\ pc' = [pc EXCEPT ![t] = "204"]
            /\ local' = [local EXCEPT ![t].value = None, ![t].invoked = FALSE, ![t].after_store = ValueStored, ![t].found = FALSE, ![t].reads = @ + 1, ![t].result = NoResult]
            /\ UNCHANGED <<proxyVars, transVars, copyVars>>

\* line 204: if self._value is None
L204(t) == /\ pc[t] = "204"
           /\ pc' = [pc EXCEPT ![t] = IF _value = None THEN "206" ELSE "214"]
           /\ local' = [local EXCEPT ![t].found = (_value # None)]
           /\ UNCHANGED <<proxyVars, transVars, copyVars>>

\* line 206: value = self._func(*self._args, **self._kwargs); an exception that
\* is no AttributeError leaves the read at once.
L206(t) == /\ pc[t] = "206"
           /\ calls' = calls + 1
           /\ \E r \in FuncOutcomes :
                /\ pc' = [pc EXCEPT ![t] = IF r.kind = "return" THEN "211" ELSE IF r.kind = "AttributeError" THEN "208" ELSE Idle]
                /\ local' = [local EXCEPT ![t].invoked = TRUE, ![t].value = r.val, ![t].result = IF r.kind = "Exception" THEN [kind |-> "Exception", val |-> r.val] ELSE @]
           /\ UNCHANGED <<_is_cache_enabled, _value, _attribute_error, log, transVars, copyVars>>

\* lines 208-209: remember the AttributeError and raise it.
L208(t) == /\ pc[t] = "208"
           /\ _attribute_error' = local[t].value
           /\ pc' = [pc EXCEPT ![t] = Idle]
           /\ local' = [local EXCEPT ![t].result = [kind |-> "AttributeError", val |-> local[t].value]]
           /\ UNCHANGED <<_is_cache_enabled, _value, calls, log, transVars, copyVars>>

\* lines 211-212: if not self._is_cache_enabled: return value
L211(t) == /\ pc[t] = "211"
           /\ pc' = [pc EXCEPT ![t] = IF _is_cache_enabled THEN "213" ELSE Idle]
           /\ local' = [local EXCEPT ![t].result = IF _is_cache_enabled THEN @ ELSE [kind |-> "return", val |-> local[t].value]]
           /\ UNCHANGED <<proxyVars, transVars, copyVars>>

\* line 213: object.__setattr__(self, '_value', value)
L213(t) == /\ pc[t] = "213"
           /\ _value' = local[t].value
           /\ pc' = [pc EXCEPT ![t] = "214"]
           /\ local' = [local EXCEPT ![t].stores = @ + 1]
           /\ UNCHANGED <<_is_cache_enabled, _attribute_error, calls, log, transVars, copyVars>>

\* line 214: return self._value
L214(t) == /\ pc[t] = "214"
           /\ pc' = [pc EXCEPT ![t] = Idle]
           /\ local' = [local EXCEPT ![t].result = [kind |-> "return", val |-> _value]]
           /\ UNCHANGED <<proxyVars, transVars, copyVars>>

NextThreads == \E t \in Threads : Start(t) \/ L204(t) \/ L206(t) \/ L208(t) \/ L211(t) \/ L213(t) \/ L214(t)

SpecThreads == InitThreads /\ [][NextThreads]_vars

(***************************************************************************)
(* LazyProxy.value read by two threads: claims                             *)
(***************************************************************************)

\* Both threads call the producer in their first read of a caching proxy.
C14_RaceBothInvoke == _is_cache_enabled /\ calls = 2 /\ \A t \in Threads : local[t].reads = 1 /\ local[t].invoked

\* C14: two threads that read value on the same unrealized caching proxy may
\* both invoke the producer, and in every interleaving a read that starts
\* after a value has been stored does not invoke the producer.
C14_NoCallAfterStore == \A t \in Threads : local[t].after_store => ~local[t].invoked

\* A read that finds a value other than None in the slot at line 204 does not
\* invoke the producer.
C14_NoCallWhenValueFound == \A t \in Threads : local[t].found => ~local[t].invoked

====
